---- MODULE Spec2Model ----
(***************************************************************************)
(* wavemutator.js: a Web Audio toy that generates one period of a wave,    *)
(* loops it through an AudioBufferSourceNode and mutates it periodically.  *)
(*                                                                         *)
(* The script runs on the single JavaScript thread of a page.  Every       *)
(* handler is modelled as the sequence of its statements, executed one at  *)
(* a time while `todo' is non-empty; a new event is dispatched only when   *)
(* `todo' is empty.  An uncaught exception empties `todo'.                 *)
(*                                                                         *)
(* Samples are fixed point: the float 1.0 is the integer Scale.  Float     *)
(* results are rounded to the nearest unit.                                *)
(***************************************************************************)
EXTENDS Integers, Sequences, FiniteSets

VARIABLES
  hasAudioContext, \* environment: window.AudioContext || window.webkitAudioContext exists
  ready,           \* the document-ready event has been dispatched
  webaudio,        \* "undefined", or the AudioContext's state: "suspended" / "running"
  msg,             \* text of #msg
  volume,          \* "undefined" or "gain" (the GainNode)
  audio,           \* 0 (undefined) or the id of the current AudioBufferSourceNode
  handles,         \* every AudioBufferSourceNode created: [state, buffer]
  canvas,          \* the samples last drawn by drawBuffer
  mutating,        \* 0 (undefined) or the interval id
  timers,          \* the window's map of active interval ids
  timerSeq,        \* ids handed out by setInterval so far
  queue,           \* interval ids whose callback task is queued in the event loop
  freq,            \* value of #freq
  wavetype,        \* value of #wavetype
  todo,            \* statements the running handler has still to execute
  frame,           \* the running handler and its local variables
  cycles,          \* history: mutateBuffer runs completed since the last start
  fired            \* history: a timer callback has run since the last start

vars == <<hasAudioContext, ready, webaudio, msg, volume, audio, handles, canvas,
          mutating, timers, timerSeq, queue, freq, wavetype, todo, frame,
          cycles, fired>>

------------------------------------------------------------------------------
(* Bounds of the model *)

\* webaudio.sampleRate: set by the audio hardware
SampleRate == 7
\* AudioBufferSourceNodes created in one run
MaxHandles == 3
\* setInterval calls in one run
MaxTimers == 2
\* highest sample rate of the buffers the operators are applied to on their own
MaxRate == 12
\* successive applications of one operator to one buffer
MaxApplications == 40

\* 1.0 in fixed point; 0.0001 (peakify's coefficient) is one unit
Scale == 10000

\* values of #freq tried: the two highest that do not exceed sampleRate / 2
Freqs == ((SampleRate \div 2) - 1)..(SampleRate \div 2)
WaveTypes == {"sine", "saw", "square", "noise"}
\* positions of the #mutation-amount slider (range 0-40)
Sliders == {25}
\* results of Math.random(), in [0, 1)
RandGrid == <<0, Scale \div 2, Scale - 1>>
\* a generator: <<first, stride>>; its i-th draw is RandGrid[(first + i*stride) % 3]
RandomSeeds == {<<0, 1>>}

MutationNames == {"sinify", "squarify", "peakify", "nullify", "offsettify",
                  "smoothify", "noisify", "randomizify"}
\* values #mutation may hold: the eight operators and one that is none of them
MutationSelect == MutationNames \cup {"invertify"}

------------------------------------------------------------------------------
(* Arithmetic *)

\* a / b rounded to the nearest integer (b > 0)
RoundDiv(a, b) == (2 * a + b) \div (2 * b)

\* Math.random(): the i-th draw of generator seed
Random(seed, i) == RandGrid[((seed[1] + i * seed[2]) % 3) + 1]

\* Math.sin(2*PI*p/q) for 0 <= p < q, by Bhaskara's rational approximation
\* (exact at 0, 1/4, 1/2, 3/4 of the period; error below 0.002)
Sin(p, q) ==
  LET u == IF 2 * p <= q THEN p * (q - 2 * p) ELSE (2 * p - q) * (q - p)
      s == RoundDiv(Scale * 32 * u, 5 * q * q - 8 * u)
  IN  IF 2 * p <= q THEN s ELSE -s

fitRange_NoMax(value, min, max) == IF value < min THEN min ELSE value

fitRange(value, min, max) ==
  IF value < min THEN min
  ELSE IF value > max THEN max
  ELSE value

------------------------------------------------------------------------------
(* audioBuffer(freq, type) *)

CreateBufferLength_Round(num, den) == RoundDiv(num, den)

\* createBuffer's length argument is a WebIDL unsigned long: num/den is truncated
CreateBufferLength(num, den) == num \div den

\* lines 27-28: i is compared with half of the fractional length sr / f
SquareSample_HalfN(i, f, sr, n) == IF 2 * i < n THEN Scale ELSE -Scale

SquareSample(i, f, sr, n) == IF 2 * i * f < sr THEN Scale ELSE -Scale

\* audioBuffer at sample rate sr.  length = sr / f is a fraction; writes past
\* the end of the Float32Array are dropped, so only indices below the buffer's
\* length count
audioBufferAt(sr, f, type, seed) ==
  LET n == CreateBufferLength(sr, f)
  IN  CASE type = "saw" ->
             [k \in 1..n |-> Scale - RoundDiv(2 * (k - 1) * f * Scale, sr)]
        [] type = "square" ->
             [k \in 1..n |-> SquareSample(k - 1, f, sr, n)]
        [] type = "noise" ->
             [k \in 1..CreateBufferLength(32 * sr, f) |->
                2 * Random(seed, k - 1) - Scale]
        [] OTHER ->
             [k \in 1..n |-> Sin((k - 1) * f, sr)]

audioBuffer(f, type, seed) == audioBufferAt(SampleRate, f, type, seed)

------------------------------------------------------------------------------
(* mutations: each takes the Float32Array and the amount *)

sinify(buffer, amount) ==
  [k \in 1..Len(buffer) |->
     fitRange(buffer[k] + RoundDiv(Sin(k - 1, Len(buffer)) * amount, 100),
              -Scale, Scale)]

squarify(buffer, amount) ==
  [k \in 1..Len(buffer) |->
     fitRange(IF 2 * (k - 1) < Len(buffer)
              THEN buffer[k] + (Scale \div 100) * amount
              ELSE buffer[k] - (Scale \div 100) * amount,
              -Scale, Scale)]

peakify(buffer, amount) ==
  [k \in 1..Len(buffer) |->
     fitRange(buffer[k] - (k - 1) * (Scale \div 10000) * amount, -Scale, Scale)]

nullify(buffer, amount) ==
  [k \in 1..Len(buffer) |->
     fitRange(IF buffer[k] > 0 THEN buffer[k] - (Scale \div 100) * amount
              ELSE IF buffer[k] < 0 THEN buffer[k] + (Scale \div 100) * amount
              ELSE buffer[k],
              -Scale, Scale)]

offsettify_NoClamp(buffer, amount) ==
  [k \in 1..Len(buffer) |-> buffer[k] + (Scale \div 100) * amount]

offsettify(buffer, amount) ==
  [k \in 1..Len(buffer) |->
     fitRange(buffer[k] + (Scale \div 100) * amount, -Scale, Scale)]

\* in place, index by index: prev (and the last sample's next) is already smoothed
RECURSIVE SmoothFrom(_, _)
SmoothFrom(buffer, k) ==
  IF k > Len(buffer) THEN buffer
  ELSE LET n    == Len(buffer)
           prev == buffer[((n + (k - 1) - 1) % n) + 1]
           next == buffer[(k % n) + 1]
       IN  SmoothFrom([buffer EXCEPT ![k] = RoundDiv(prev + buffer[k] + next, 3)],
                      k + 1)

smoothify_NoWrite(buffer) == buffer

smoothify(buffer) == SmoothFrom(buffer, 1)

noisify(buffer, amount, seed) ==
  [k \in 1..Len(buffer) |->
     fitRange(buffer[k] + RoundDiv(Random(seed, k - 1) * 2 * amount, 100)
                - (Scale \div 100) * amount,
              -Scale, Scale)]

randomizify(buffer, seed) ==
  [k \in 1..Len(buffer) |-> 2 * Random(seed, k - 1) - Scale]

\* the property lookup mutations[kind]: a name that is no key gives undefined
Lookup_Default(kind) == IF kind \in MutationNames THEN kind ELSE "offsettify"

Lookup(kind) == IF kind \in MutationNames THEN kind ELSE "undefined"

\* mutations[kind](data, amount), for kind one of MutationNames
mutations(kind, buffer, amount, seed) ==
  CASE kind = "sinify"      -> sinify(buffer, amount)
    [] kind = "squarify"    -> squarify(buffer, amount)
    [] kind = "peakify"     -> peakify(buffer, amount)
    [] kind = "nullify"     -> nullify(buffer, amount)
    [] kind = "offsettify"  -> offsettify(buffer, amount)
    [] kind = "smoothify"   -> smoothify(buffer)
    [] kind = "noisify"     -> noisify(buffer, amount, seed)
    [] kind = "randomizify" -> randomizify(buffer, seed)

------------------------------------------------------------------------------
(* The handlers, as the statements they execute *)

newBufferSource_StopFirst == <<"stop", "start", "assign">>
newBufferSource_NoStop == <<"start", "assign">>
newBufferSource_Suspends == <<"start", "stop", "assign", "suspend">>

newBufferSource == <<"start", "stop", "assign">>

readyHandler ==
  <<"newctx", "check", "gain", "generate">> \o newBufferSource \o <<"draw", "suspend">>

updateBuffer_Stops == <<"generate">> \o newBufferSource \o <<"draw", "clear", "unset">>

updateBuffer == <<"generate">> \o newBufferSource \o <<"draw">>

mutateBuffer == <<"select", "call", "copy">> \o newBufferSource \o <<"drawdata">>

mutateClickStop_NoClear == <<"unset">>
mutateClickStop_NoUnset == <<"clear">>

mutateClickStop == <<"clear", "unset">>

mutateClickStart_ArmFirst == <<"arm">> \o mutateBuffer

mutateClickStart == mutateBuffer \o <<"arm">>

playClick_AlwaysSuspend == <<"suspend">>

playClick == <<"toggle">>

EmptyFrame ==
  [handler |-> "none", newAudio |-> 0, newBuffer |-> <<>>, data |-> 0,
   kind |-> "", amount |-> 0, before |-> <<>>]

\* the frame after a statement: dropped when the handler returns
After(f) == IF Len(todo) = 1 THEN EmptyFrame ELSE f

env == <<hasAudioContext, ready, freq, wavetype>>
sched == <<mutating, timers, timerSeq, queue>>
hist == <<cycles, fired>>

Init ==
  /\ hasAudioContext \in BOOLEAN
  /\ ready = FALSE
  /\ webaudio = "undefined"
  /\ msg = ""
  /\ volume = "undefined"
  /\ audio = 0
  /\ handles = <<>>
  /\ canvas = <<>>
  /\ mutating = 0
  /\ timers = {}
  /\ timerSeq = 0
  /\ queue = {}
  /\ freq \in Freqs
  /\ wavetype \in WaveTypes
  /\ todo = <<>>
  /\ frame = EmptyFrame
  /\ cycles = 0
  /\ fired = FALSE

------------------------------------------------------------------------------
(* Events: dispatched by the event loop when no handler is running *)

Idle == todo = <<>>

Dispatch(h, program) ==
  /\ todo' = program
  /\ frame' = [EmptyFrame EXCEPT !.handler = h]

\* $(document).ready(...)
DocumentReady ==
  /\ Idle /\ ~ready
  /\ ready' = TRUE
  /\ Dispatch("ready", readyHandler)
  /\ UNCHANGED <<hasAudioContext, freq, wavetype, webaudio, msg, volume, audio,
                 handles, canvas, sched, hist>>

\* $('#wavetype').change(updateBuffer)
WavetypeChange ==
  /\ Idle /\ ready /\ Len(handles) < MaxHandles
  /\ \E t \in WaveTypes \ {wavetype} : wavetype' = t
  /\ Dispatch("update", updateBuffer)
  /\ UNCHANGED <<hasAudioContext, ready, freq, webaudio, msg, volume, audio,
                 handles, canvas, sched, hist>>

\* $('#freq').change(updateBuffer)
FreqChange ==
  /\ Idle /\ ready /\ Len(handles) < MaxHandles
  /\ \E f \in Freqs \ {freq} : freq' = f
  /\ Dispatch("update", updateBuffer)
  /\ UNCHANGED <<hasAudioContext, ready, wavetype, webaudio, msg, volume, audio,
                 handles, canvas, sched, hist>>

\* $('#play').click(...)
PlayClick ==
  /\ Idle /\ ready
  /\ Dispatch("play", playClick)
  /\ UNCHANGED <<env, webaudio, msg, volume, audio, handles, canvas, sched, hist>>

\* $('#mutate').click(...): the branch taken by `if (mutating)'
MutateClick ==
  /\ Idle /\ ready
  /\ IF mutating # 0
       THEN /\ Dispatch("click", mutateClickStop)
            /\ UNCHANGED hist
       ELSE /\ Len(handles) < MaxHandles /\ timerSeq < MaxTimers
            /\ Dispatch("click", mutateClickStart)
            /\ cycles' = 0 /\ fired' = FALSE
  /\ UNCHANGED <<env, webaudio, msg, volume, audio, handles, canvas, sched>>

\* the 200 ms of an active interval elapse: its callback task is queued
TimerExpire ==
  /\ Idle
  /\ \E id \in timers \ queue : queue' = queue \cup {id}
  /\ UNCHANGED <<env, webaudio, msg, volume, audio, handles, canvas, mutating,
                 timers, timerSeq, todo, frame, hist>>

\* a queued callback task runs: the callback (mutateBuffer) is invoked only if
\* the id is still in the map of active timers
TimerTask ==
  /\ Idle
  /\ \E id \in queue :
       /\ queue' = queue \ {id}
       /\ IF id \in timers
            THEN /\ Len(handles) < MaxHandles
                 /\ Dispatch("tick", mutateBuffer)
                 /\ fired' = TRUE /\ cycles' = cycles
            ELSE UNCHANGED <<todo, frame, hist>>
  /\ UNCHANGED <<env, webaudio, msg, volume, audio, handles, canvas, mutating,
                 timers, timerSeq>>

------------------------------------------------------------------------------
(* Statements *)

At(stmt) == todo # <<>> /\ Head(todo) = stmt

Continue(f) == todo' = Tail(todo) /\ frame' = After(f)

\* an uncaught exception ends the handler
Throw == todo' = <<>> /\ frame' = EmptyFrame

\* line 230: new (window.AudioContext || window.webkitAudioContext)()
\* `new undefined' is a TypeError; a new context may or may not be allowed to run
NewContext ==
  /\ At("newctx")
  /\ IF hasAudioContext
       THEN /\ webaudio' \in {"suspended", "running"}
            /\ Continue(frame)
       ELSE /\ Throw
            /\ UNCHANGED webaudio
  /\ UNCHANGED <<env, msg, volume, audio, handles, canvas, sched, hist>>

\* line 231: the context is compared with the string 'undefined'
CheckSupport ==
  /\ At("check")
  /\ IF webaudio = "'undefined'"
       THEN /\ msg' = "Web Audio unsupported!"
            /\ todo' = <<>> /\ frame' = EmptyFrame
       ELSE /\ Continue(frame)
            /\ UNCHANGED msg
  /\ UNCHANGED <<env, webaudio, volume, audio, handles, canvas, sched, hist>>

\* lines 233-235
CreateGain ==
  /\ At("gain")
  /\ volume' = "gain"
  /\ Continue(frame)
  /\ UNCHANGED <<env, webaudio, msg, audio, handles, canvas, sched, hist>>

\* lines 92, 238: audioBuffer($('#freq').val(), $('#wavetype').val())
Generate ==
  /\ At("generate")
  /\ IF webaudio = "undefined"
       THEN Throw
       ELSE \E seed \in RandomSeeds :
              Continue([frame EXCEPT !.newBuffer = audioBuffer(freq, wavetype, seed)])
  /\ UNCHANGED <<env, webaudio, msg, volume, audio, handles, canvas, sched, hist>>

\* lines 49-53: the new looping source is created on the buffer and started
StartNew ==
  /\ At("start")
  /\ handles' = Append(handles, [state |-> "started", buffer |-> frame.newBuffer])
  /\ Continue([frame EXCEPT !.newAudio = Len(handles) + 1])
  /\ UNCHANGED <<env, webaudio, msg, volume, audio, canvas, sched, hist>>

\* line 54: if (audio) audio.stop()
StopOld ==
  /\ At("stop")
  /\ handles' = IF audio # 0
                  THEN [handles EXCEPT ![audio].state = "stopped"]
                  ELSE handles
  /\ Continue(frame)
  /\ UNCHANGED <<env, webaudio, msg, volume, audio, canvas, sched, hist>>

\* line 55: audio = newAudio
Assign ==
  /\ At("assign")
  /\ audio' = frame.newAudio
  /\ Continue([frame EXCEPT !.newAudio = 0, !.newBuffer = <<>>])
  /\ UNCHANGED <<env, webaudio, msg, volume, handles, canvas, sched, hist>>

\* lines 95, 241: drawBuffer(audio.buffer.getChannelData(0), ...)
Draw ==
  /\ At("draw")
  /\ canvas' = handles[audio].buffer
  /\ Continue(frame)
  /\ UNCHANGED <<env, webaudio, msg, volume, audio, handles, sched, hist>>

\* lines 198-204 and 244
Suspend ==
  /\ At("suspend")
  /\ webaudio' = "suspended"
  /\ Continue(frame)
  /\ UNCHANGED <<env, msg, volume, audio, handles, canvas, sched, hist>>

Toggle ==
  /\ At("toggle")
  /\ IF webaudio = "undefined"
       THEN Throw /\ UNCHANGED webaudio
       ELSE /\ webaudio' = IF webaudio = "suspended" THEN "running" ELSE "suspended"
            /\ Continue(frame)
  /\ UNCHANGED <<env, msg, volume, audio, handles, canvas, sched, hist>>

\* lines 181-183 and the operands of line 186: data is the live buffer's own
\* array, newBuffer a fresh buffer of its length
Select ==
  /\ At("select")
  /\ IF audio = 0
       THEN Throw
       ELSE \E k \in MutationSelect, slider \in Sliders :
              Continue([frame EXCEPT
                          !.data = audio,
                          !.newBuffer = [i \in 1..Len(handles[audio].buffer) |-> 0],
                          !.amount = slider - 20,
                          !.kind = k,
                          !.before = handles[audio].buffer])
  /\ UNCHANGED <<env, webaudio, msg, volume, audio, handles, canvas, sched, hist>>

\* line 186: mutations[kind](data, amount); calling undefined is a TypeError
Call ==
  /\ At("call")
  /\ IF Lookup(frame.kind) # "undefined"
       THEN /\ \E seed \in RandomSeeds :
                 handles' = [handles EXCEPT ![frame.data].buffer =
                               mutations(Lookup(frame.kind), @, frame.amount, seed)]
            /\ Continue(frame)
       ELSE /\ Throw
            /\ UNCHANGED handles
  /\ UNCHANGED <<env, webaudio, msg, volume, audio, canvas, sched, hist>>

\* line 190: newBuffer.copyToChannel(data, 0, 0)
Copy ==
  /\ At("copy")
  /\ Continue([frame EXCEPT !.newBuffer = handles[frame.data].buffer])
  /\ UNCHANGED <<env, webaudio, msg, volume, audio, handles, canvas, sched, hist>>

\* line 193: drawBuffer(data, ...); mutateBuffer returns
DrawData ==
  /\ At("drawdata")
  /\ canvas' = handles[frame.data].buffer
  /\ cycles' = cycles + 1
  /\ Continue([frame EXCEPT !.data = 0, !.kind = "", !.amount = 0, !.before = <<>>])
  /\ UNCHANGED <<env, webaudio, msg, volume, audio, handles, sched, fired>>

\* line 216: mutating = window.setInterval(mutateBuffer, 200)
Arm ==
  /\ At("arm")
  /\ timerSeq' = timerSeq + 1
  /\ timers' = timers \cup {timerSeq + 1}
  /\ mutating' = timerSeq + 1
  /\ Continue(frame)
  /\ UNCHANGED <<env, webaudio, msg, volume, audio, handles, canvas, queue, hist>>

\* line 211: clearInterval(mutating)
Clear ==
  /\ At("clear")
  /\ timers' = timers \ {mutating}
  /\ Continue(frame)
  /\ UNCHANGED <<env, webaudio, msg, volume, audio, handles, canvas, mutating,
                 timerSeq, queue, hist>>

\* line 212: mutating = undefined
Unset ==
  /\ At("unset")
  /\ mutating' = 0
  /\ Continue(frame)
  /\ UNCHANGED <<env, webaudio, msg, volume, audio, handles, canvas, timers,
                 timerSeq, queue, hist>>

Next ==
  \/ DocumentReady \/ WavetypeChange \/ FreqChange \/ PlayClick \/ MutateClick
  \/ TimerExpire \/ TimerTask
  \/ NewContext \/ CheckSupport \/ CreateGain \/ Generate
  \/ StartNew \/ StopOld \/ Assign \/ Draw \/ Suspend \/ Toggle
  \/ Select \/ Call \/ Copy \/ DrawData \/ Arm \/ Clear \/ Unset

Spec == Init /\ [][Next]_vars

------------------------------------------------------------------------------
(* The operators on their own: one operator applied again and again to a
   generated buffer, as successive cycles with an unchanged selection do.
   frame.newBuffer is the buffer, frame.before the buffer one application
   earlier, cycles the number of applications. *)

OpsRates == 2..MaxRate

OpsWaveTypes == {"sine", "saw", "square"}

OpsKinds == {"smoothify", "nullify"}

OpsSliders == {21, 25, 40}

OpsInit ==
  /\ hasAudioContext = TRUE /\ ready = TRUE /\ webaudio = "suspended"
  /\ msg = "" /\ volume = "gain"
  /\ audio = 0 /\ handles = <<>> /\ canvas = <<>>
  /\ mutating = 0 /\ timers = {} /\ timerSeq = 0 /\ queue = {}
  /\ todo = <<>> /\ cycles = 0 /\ fired = FALSE
  /\ wavetype \in OpsWaveTypes
  /\ \E sr \in OpsRates, seed \in RandomSeeds, k \in OpsKinds, slider \in OpsSliders :
       /\ freq \in 1..(sr \div 2)
       /\ frame = [EmptyFrame EXCEPT
                     !.handler = "operator",
                     !.kind = k,
                     !.amount = slider - 20,
                     !.newBuffer = audioBufferAt(sr, freq, wavetype, seed),
                     !.before = audioBufferAt(sr, freq, wavetype, seed)]

\* line 186 applied to the buffer the previous application left
ApplyMutation ==
  /\ cycles < MaxApplications
  /\ \E seed \in RandomSeeds :
       frame' = [frame EXCEPT
                   !.before = frame.newBuffer,
                   !.newBuffer = mutations(frame.kind, frame.newBuffer,
                                           frame.amount, seed)]
  /\ cycles' = cycles + 1
  /\ UNCHANGED <<env, webaudio, msg, volume, audio, handles, canvas, sched,
                 todo, fired>>

OpsNext == ApplyMutation

SpecOps == OpsInit /\ [][OpsNext]_vars

------------------------------------------------------------------------------
(* Properties *)

Started == {h \in DOMAIN handles : handles[h].state = "started"}

InRange(buffer) == \A k \in DOMAIN buffer : -Scale <= buffer[k] /\ buffer[k] <= Scale

Installing == todo # <<>> /\ Head(todo) \in {"start", "stop", "assign"}

\* C1: once a first source has been started, at least one source is started
\* and not stopped in every state, inside newBufferSource as well as between
\* events (the new source is started before the previous one is stopped).
C1_NeverSilent == handles # <<>> => Started # {}

\* C1 witness: a timer tick's install has started the new source while the
\* previous one is still playing.
C1_Witness ==
  /\ At("stop") /\ frame.handler = "tick"
  /\ audio # 0 /\ Cardinality(Started) = 2

\* C2 (as claimed): from the start of a mutation cycle until the new source is
\* installed, the samples of the buffer bound to the live source are what they
\* were before the cycle began.
C2_LiveBufferUntouched ==
  (frame.handler \in {"click", "tick"} /\ frame.data # 0 /\ audio = frame.data)
    => handles[audio].buffer = frame.before

\* C3: every sample of the installed buffer lies in [-1, 1], and so does every
\* sample of the buffer about to be installed.
C3_SamplesInRange ==
  /\ audio # 0 => InRange(handles[audio].buffer)
  /\ InRange(frame.newBuffer)

\* C3 witness: offsettify has just run on a sample that the offset would push
\* above 1, and the sample sits at 1.
C3_Witness ==
  /\ At("copy") /\ frame.kind = "offsettify"
  /\ \E k \in DOMAIN frame.before :
       /\ frame.before[k] + (Scale \div 100) * frame.amount > Scale
       /\ handles[frame.data].buffer[k] = Scale

\* C4: while the scheduler is stopped no timer callback starts a mutation
\* cycle, even when its task was queued before the stop; completed cycles do
\* not grow while stopped; and a stop before any timer callback has run
\* leaves exactly one cycle executed since the start.
C4_NoCycleAfterStop ==
  [][ /\ (Idle /\ mutating = 0) => frame'.handler # "tick"
      /\ (Idle /\ mutating = 0 /\ frame'.handler # "click") => cycles' = cycles
      /\ (mutating # 0 /\ mutating' = 0 /\ ~fired) => cycles = 1 ]_vars

\* C4 witness: the scheduler was stopped right after its start, with a timer
\* task already queued, and exactly one cycle has run.
C4_Witness ==
  /\ Idle /\ mutating = 0 /\ queue # {}
  /\ ~fired /\ cycles = 1

\* C5: at most one interval is active at any step, and at every point outside
\* the two statements of the stop branch the active intervals are exactly the
\* one stored in `mutating' (none when it is undefined).
C5_OneTimer ==
  /\ Cardinality(timers) <= 1
  /\ ~At("unset") => timers = (IF mutating = 0 THEN {} ELSE {mutating})

\* C5 witness: the scheduler has been started, stopped and started again, and
\* the second interval is the only active one.
C5_Witness == Idle /\ timerSeq = 2 /\ mutating = 2 /\ timers = {2}

\* C6 (amended): the buffer audioBuffer returns has floor(sampleRate/f)
\* samples for sine, saw and square and floor(32*sampleRate/f) for noise.
C6_LengthTruncated ==
  (frame.handler \in {"ready", "update"} /\ frame.newBuffer # <<>>)
    => LET n == Len(frame.newBuffer)
           r == IF wavetype = "noise" THEN 32 * SampleRate ELSE SampleRate
       IN  n * freq <= r /\ r < (n + 1) * freq

\* C6 witness: a noise buffer has been generated for a frequency that does
\* not divide the sample rate.
C6_Witness ==
  /\ frame.handler = "update" /\ frame.newBuffer # <<>>
  /\ wavetype = "noise" /\ SampleRate % freq # 0

\* C6 (as claimed): the length is round(sampleRate/f), times 32 for noise.
C6_LengthRounded ==
  (frame.handler \in {"ready", "update"} /\ frame.newBuffer # <<>>)
    => Len(frame.newBuffer) =
         (IF wavetype = "noise" THEN 32 ELSE 1) * RoundDiv(SampleRate, freq)

\* C7 (as claimed): without an AudioContext constructor, initialization ends
\* with the unsupported message reported and nothing else initialized.
C7_UnsupportedReported ==
  (ready /\ Idle /\ ~hasAudioContext)
    => /\ msg = "Web Audio unsupported!"
       /\ volume = "undefined" /\ handles = <<>> /\ canvas = <<>>

\* C8: between events of an initialized page exactly one source is started
\* and not stopped, it is the current one, and no install is in progress; an
\* install, once begun, runs its next statement before anything else; a
\* stopped source stays stopped.
C8_OneActiveHandle ==
  /\ []((Idle /\ ready /\ hasAudioContext)
          => (audio # 0 /\ Started = {audio} /\ frame.newAudio = 0))
  /\ [][Installing => todo' = Tail(todo)]_vars
  /\ [][\A h \in DOMAIN handles :
          handles[h].state = "stopped" => handles'[h].state = "stopped"]_vars

\* C8 witness: after two replacements the third source is current, the two
\* earlier ones are stopped, and the scheduler is active.
C8_Witness ==
  /\ Idle /\ Len(handles) = 3 /\ audio = 3 /\ mutating # 0
  /\ handles[1].state = "stopped" /\ handles[2].state = "stopped"

\* C9: no statement of an install, and no statement of a regenerate or
\* mutation handler, changes the state of the audio context.
C9_InstallKeepsPlaybackState ==
  [][(Installing \/ frame.handler \in {"update", "click", "tick"})
       => webaudio' = webaudio]_vars

\* C9 witness: a timer tick is installing its buffer while the context is
\* suspended.
C9_Witness ==
  /\ At("assign") /\ frame.handler = "tick" /\ webaudio = "suspended"

C12_SquareByPeriod ==
  (frame.handler \in {"ready", "update"} /\ frame.newBuffer # <<>>
     /\ wavetype = "square")
    => LET b == frame.newBuffer
           h == Cardinality({k \in DOMAIN b : b[k] = Scale})
       IN  /\ \A k \in DOMAIN b : b[k] = (IF k <= h THEN Scale ELSE -Scale)
           /\ h = Len(b) \/ 2 * h * freq >= SampleRate
           /\ h = 0 \/ 2 * (h - 1) * freq < SampleRate

\* C12 witness: a generated square buffer holds +1 at an index that is not
\* below half of its length.
C12_Witness ==
  /\ frame.handler \in {"ready", "update"} /\ wavetype = "square"
  /\ \E k \in DOMAIN frame.newBuffer :
       frame.newBuffer[k] = Scale /\ 2 * (k - 1) >= Len(frame.newBuffer)

\* C12 (as claimed): with n the length of the square buffer, sample i is +1
\* exactly when i < n/2 and -1 otherwise.
C12_SquareByLength ==
  (frame.handler \in {"ready", "update"} /\ frame.newBuffer # <<>>
     /\ wavetype = "square")
    => \A k \in DOMAIN frame.newBuffer :
         frame.newBuffer[k] =
           (IF 2 * (k - 1) < Len(frame.newBuffer) THEN Scale ELSE -Scale)

\* C13: when a cycle with kind offsettify and amount a = slider - 20 has
\* installed its buffer, every sample of the installed buffer is the sample v
\* the cycle started from plus 0.01*a, clamped to [-1, 1], and the length is
\* the one the cycle started from.
C13_OffsetClamped ==
  (At("drawdata") /\ frame.kind = "offsettify")
    => LET b == handles[audio].buffer
           d == (Scale * frame.amount) \div 100
       IN  /\ frame.amount + 20 \in Sliders
           /\ Len(b) = Len(frame.before)
           /\ \A k \in DOMAIN b :
                b[k] = (IF frame.before[k] + d > Scale THEN Scale
                        ELSE IF frame.before[k] + d < -Scale THEN -Scale
                        ELSE frame.before[k] + d)

\* C13 witness: an offsettify cycle with amount +5 has installed a buffer in
\* which one sample rose by 0.05 and another was held at 1.0.
C13_Witness ==
  /\ At("drawdata") /\ frame.kind = "offsettify" /\ frame.amount = 5
  /\ \E k \in DOMAIN frame.before :
       handles[audio].buffer[k] = frame.before[k] + (5 * Scale) \div 100
  /\ \E k \in DOMAIN frame.before :
       /\ frame.before[k] + (5 * Scale) \div 100 > Scale
       /\ handles[audio].buffer[k] = Scale

\* C14: once an audio context exists its state stays one of suspended and
\* running for ever; the play handler turns suspended into running and
\* running into suspended, and from its dispatch to its return the installed
\* buffer, the current handle and the scheduler (interval id, active timers,
\* queued ticks) stay as they are.
C14_ToggleOnly ==
  /\ [][webaudio # "undefined" => webaudio' \in {"suspended", "running"}]_vars
  /\ [][(frame.handler = "play" /\ webaudio # "undefined")
          => /\ webaudio' # webaudio
             /\ webaudio' \in {"suspended", "running"}
             /\ todo' = <<>>]_vars
  /\ [][(frame.handler = "play" \/ frame'.handler = "play")
          => UNCHANGED <<audio, handles, mutating, timers, timerSeq, queue>>]_vars

\* C14 witness: the play handler is about to toggle a running context while a
\* buffer is installed and the scheduler is active.
C14_Witness ==
  /\ At("toggle") /\ frame.handler = "play"
  /\ webaudio = "running" /\ audio # 0 /\ mutating # 0

\* the length of the installed buffer, 0 while nothing is installed
InstalledLength == IF audio = 0 THEN 0 ELSE Len(handles[audio].buffer)

Abs(x) == IF x < 0 THEN -x ELSE x

RECURSIVE SumAbsDiff(_, _)
SumAbsDiff(buffer, k) ==
  IF k > Len(buffer) THEN 0
  ELSE Abs(buffer[k] - buffer[k - 1]) + SumAbsDiff(buffer, k + 1)

\* sum over i >= 1 of |sample[i] - sample[i-1]|
TotalVariation(buffer) == SumAbsDiff(buffer, 2)

\* the same sum with the step from the last sample back to the first added
CircularVariation(buffer) ==
  IF buffer = <<>> THEN 0
  ELSE TotalVariation(buffer) + Abs(buffer[1] - buffer[Len(buffer)])

\* C15 (amended): starting from a square buffer, no application of smoothify
\* increases the circular total variation (the sum of |sample[i] - sample[i-1]|
\* with the last sample as the first one's predecessor), and an application
\* strictly reduces it while it exceeds two rounding units per sample.
C15_CircularVariationFalls ==
  (frame.handler = "operator" /\ frame.kind = "smoothify"
     /\ wavetype = "square" /\ cycles > 0)
    => /\ Len(frame.newBuffer) = Len(frame.before)
       /\ CircularVariation(frame.newBuffer) <= CircularVariation(frame.before)
       /\ CircularVariation(frame.before) > 2 * Len(frame.before)
            => CircularVariation(frame.newBuffer) < CircularVariation(frame.before)

\* C15 witness: a second or later application of smoothify to a buffer that
\* started as a square wave has strictly reduced its circular total variation.
C15_Witness ==
  /\ frame.handler = "operator" /\ frame.kind = "smoothify"
  /\ wavetype = "square" /\ cycles > 1
  /\ CircularVariation(frame.newBuffer) < CircularVariation(frame.before)

\* C15 (as claimed): starting from a square buffer, every application of
\* smoothify strictly reduces the total variation, the sum over i >= 1 of
\* |sample[i] - sample[i-1]|.
C15_TotalVariationFalls ==
  (frame.handler = "operator" /\ frame.kind = "smoothify"
     /\ wavetype = "square" /\ cycles > 0)
    => TotalVariation(frame.newBuffer) < TotalVariation(frame.before)

\* C17: with amount > 0, no application of nullify increases the absolute
\* value of a sample, and zero samples stay zero.
C17_NullifyDecays ==
  (frame.handler = "operator" /\ frame.kind = "nullify"
     /\ frame.amount > 0 /\ cycles > 0)
    => \A k \in DOMAIN frame.before :
         Abs(frame.newBuffer[k]) <= Abs(frame.before[k])

====
